---- MODULE Spec2Model ----
(***************************************************************************)
(* Model of main.py (FromSoft JSON tool): the token-budgeted batch         *)
(* splitter, extraction / merge through the part files, and the            *)
(* multi-threaded per-part translation run with cooperative pause/stop.    *)
(*                                                                         *)
(* A text is a finite sequence of characters; python indices are 0-based   *)
(* and TLA+ sequences 1-based, so texts[j] of the code is texts[j+1] here. *)
(***************************************************************************)
EXTENDS Integers, Sequences, FiniteSets, Bags, TLC

\* ------------------------------------------------------------------------
\* bounds of the model
\* ------------------------------------------------------------------------
\* longest item list handed to split_into_batches in SplitSpec
MaxLen == 3
\* largest token budget tried in SplitSpec (the smallest is -1)
MaxBudget == 3
\* most FmgWrappers of a document, and most Entries of one wrapper (ExtractSpec)
MaxGroups == 2
MaxEntries == 2
\* largest "max entries per part" typed into the extract tab (the smallest is -1)
MaxChunk == 2
\* a translation run: most entries of the extracted folder, most worker threads
\* asked for, the token budgets typed in ("max tokens" of the auto mode, "tokens
\* per batch" of the manual mode), and the number of runs started
MaxFlat == 2
MaxThreads == 2
AutoBudget == 2
ManualBudget == 1
MaxRuns == 1
\* most texts of the batch handed to one call of translate_batch (BatchSpec)
MaxBatch == 3

\* ------------------------------------------------------------------------
\* texts
\* ------------------------------------------------------------------------
TextOfLen(n) == [k \in 1..n |-> "a"]

\* character lengths of the items tried by SplitSpec: estimated costs 1, 1, 2, 3
SplitTexts == {TextOfLen(0), TextOfLen(1), TextOfLen(5), TextOfLen(9)}

Max2(a, b) == IF a >= b THEN a ELSE b

\* math.ceil(n / 4.0) for n >= 0
CeilDiv4(n) == (n + 3) \div 4

\* estimate_tokens: 1 for an empty text, else max(1, ceil(len / 4))
estimate_tokens(text) ==
    IF Len(text) = 0 THEN 1 ELSE Max2(1, CeilDiv4(Len(text)))

SeqsUpTo(S, n) == UNION {[1..k -> S] : k \in 0..n}

\* texts[i:j] of python (0-based, j exclusive)
Slice(texts, i, j) == SubSeq(texts, i + 1, j)

\* ------------------------------------------------------------------------
\* split_into_batches
\* ------------------------------------------------------------------------
RECURSIVE manual_scan(_, _, _, _, _)
\* inner while of the manual branch: the j at which it stops
manual_scan(texts, i, j, acc, manual_batch_tokens) ==
    IF j < Len(texts)
    THEN LET tok == estimate_tokens(texts[j + 1])
         IN  IF acc + tok > manual_batch_tokens /\ j > i
             THEN j
             ELSE manual_scan(texts, i, j + 1, acc + tok, manual_batch_tokens)
    ELSE j

\* manual_batch with the budget test on acc alone (the item's own cost left out)
manual_batch_acc_only(texts, i, manual_batch_tokens) ==
    LET RECURSIVE scan(_, _)
        scan(j, acc) ==
            IF j < Len(texts)
            THEN IF acc > manual_batch_tokens /\ j > i
                 THEN j
                 ELSE scan(j + 1, acc + estimate_tokens(texts[j + 1]))
            ELSE j
        j == scan(i, 0)
    IN  [s |-> i, e |-> j, texts |-> Slice(texts, i, j)]

\* manual_batch closing the batch as soon as the budget is reached (>= for >)
manual_batch_closes_at_budget(texts, i, manual_batch_tokens) ==
    LET RECURSIVE scan(_, _)
        scan(j, acc) ==
            IF j < Len(texts)
            THEN LET tok == estimate_tokens(texts[j + 1])
                 IN  IF acc + tok >= manual_batch_tokens /\ j > i
                     THEN j
                     ELSE scan(j + 1, acc + tok)
            ELSE j
        j  == scan(i, 0)
        j2 == IF j = i THEN i + 1 ELSE j
    IN  [s |-> i, e |-> j2, texts |-> Slice(texts, i, j2)]

\* one iteration of the outer while of the manual branch: the batch (s, e, slice)
manual_batch(texts, i, manual_batch_tokens) ==
    LET j  == manual_scan(texts, i, i, 0, manual_batch_tokens)
        j2 == IF j = i THEN i + 1 ELSE j
    IN  [s |-> i, e |-> j2, texts |-> Slice(texts, i, j2)]

\* auto_batch with the slice taken one item too long (texts[i:j+1])
auto_batch_long_slice(texts, i, max_tokens) ==
    LET j == manual_scan(texts, i, i, 0, max_tokens)
    IN  [s |-> i, e |-> j, texts |-> Slice(texts, i, IF j < Len(texts) THEN j + 1 ELSE j)]

\* auto_batch with the non-empty test off by one (j > i + 1)
auto_batch_late_break(texts, i, max_tokens) ==
    LET RECURSIVE scan(_, _)
        scan(j, acc) ==
            IF j < Len(texts)
            THEN LET tok == estimate_tokens(texts[j + 1])
                 IN  IF acc + tok > max_tokens /\ j > i + 1
                     THEN j
                     ELSE scan(j + 1, acc + tok)
            ELSE j
        j == scan(i, 0)
    IN  [s |-> i, e |-> j, texts |-> Slice(texts, i, j)]

RECURSIVE auto_scan(_, _, _, _, _)
\* inner while of the auto branch
auto_scan(texts, i, j, acc, max_tokens) ==
    IF j < Len(texts)
    THEN LET tok == estimate_tokens(texts[j + 1])
         IN  IF acc + tok > max_tokens /\ j > i
             THEN j
             ELSE auto_scan(texts, i, j + 1, acc + tok, max_tokens)
    ELSE j

\* auto_batch closing every batch after its first item
auto_batch_single_items(texts, i, max_tokens) ==
    [s |-> i, e |-> i + 1, texts |-> Slice(texts, i, i + 1)]

\* one iteration of the outer while of the auto branch
auto_batch(texts, i, max_tokens) ==
    LET j  == auto_scan(texts, i, i, 0, max_tokens)
        j2 == IF j = i THEN i + 1 ELSE j
    IN  [s |-> i, e |-> j2, texts |-> Slice(texts, i, j2)]

\* the batch the outer loop appends at position i, by mode
next_batch(texts, i, mode, max_tokens, manual_batch_tokens) ==
    IF mode = "manual"
    THEN manual_batch(texts, i, manual_batch_tokens)
    ELSE auto_batch(texts, i, max_tokens)

RECURSIVE split_loop(_, _, _, _, _, _)
split_loop(texts, i, mode, max_tokens, manual_batch_tokens, batches) ==
    IF i < Len(texts)
    THEN LET b == next_batch(texts, i, mode, max_tokens, manual_batch_tokens)
         IN  split_loop(texts, b.e, mode, max_tokens, manual_batch_tokens,
                        Append(batches, b))
    ELSE batches

\* split_into_batches(texts, mode, max_tokens, manual_batch_tokens)
split_into_batches(texts, mode, max_tokens, manual_batch_tokens) ==
    split_loop(texts, 0, mode, max_tokens, manual_batch_tokens, <<>>)

\* ------------------------------------------------------------------------
\* extraction and merge
\* ------------------------------------------------------------------------
\* stands for python's None where an entry ID is expected (real IDs are >= 0)
NoneID == 0 - 1

\* d.get(key, default) of a dict read from JSON
Get(d, key, default) == IF key \in DOMAIN d THEN d[key] ELSE default

\* python's None where a Fmg meta field is absent
NoneValue == "None"

RECURSIVE build_loop_idx_after_append(_, _, _, _)
\* build_loop with idx taken after the first append of each wrapper (every
\* index of the wrapper one too high)
build_loop_idx_after_append(wrappers, k, structure, entry_ids) ==
    IF k > Len(wrappers)
    THEN [raised |-> FALSE, structure |-> structure, entry_ids |-> entry_ids]
    ELSE LET wrapper == wrappers[k]
             fmg     == Get(wrapper, "Fmg", <<>>)
             entries == Get(fmg, "Entries", <<>>)
             base    == Len(entry_ids) + 1
             \* idx = len(entry_ids) before each append
             indexes == [e \in 1..Len(entries) |-> base + e - 1]
             ids     == [e \in 1..Len(entries) |-> entries[e].ID]
             block   == [WrapperName    |-> Get(wrapper, "Name", ""),
                         WrapperID      |-> Get(wrapper, "ID", 0),
                         FmgName        |-> Get(fmg, "Name", ""),
                         EntryIndexes   |-> indexes,
                         FmgVersion     |-> Get(fmg, "Version", NoneValue),
                         FmgBigEndian   |-> Get(fmg, "BigEndian", NoneValue),
                         FmgUnicode     |-> Get(fmg, "Unicode", NoneValue),
                         FmgCompression |-> Get(fmg, "Compression", NoneValue)]
         IN  IF \E e \in 1..Len(entries) : "ID" \notin DOMAIN entries[e]
             THEN [raised |-> TRUE, structure |-> structure, entry_ids |-> entry_ids]
             ELSE build_loop_idx_after_append(wrappers, k + 1, Append(structure, block), entry_ids \o ids)

RECURSIVE build_loop(_, _, _, _)
\* the for loop of build_structure_and_entryids over json_data["FmgWrappers"];
\* entry["ID"] of an entry without ID raises KeyError
build_loop(wrappers, k, structure, entry_ids) ==
    IF k > Len(wrappers)
    THEN [raised |-> FALSE, structure |-> structure, entry_ids |-> entry_ids]
    ELSE LET wrapper == wrappers[k]
             fmg     == Get(wrapper, "Fmg", <<>>)
             entries == Get(fmg, "Entries", <<>>)
             base    == Len(entry_ids)
             \* idx = len(entry_ids) before each append
             indexes == [e \in 1..Len(entries) |-> base + e - 1]
             ids     == [e \in 1..Len(entries) |-> entries[e].ID]
             block   == [WrapperName    |-> Get(wrapper, "Name", ""),
                         WrapperID      |-> Get(wrapper, "ID", 0),
                         FmgName        |-> Get(fmg, "Name", ""),
                         EntryIndexes   |-> indexes,
                         FmgVersion     |-> Get(fmg, "Version", NoneValue),
                         FmgBigEndian   |-> Get(fmg, "BigEndian", NoneValue),
                         FmgUnicode     |-> Get(fmg, "Unicode", NoneValue),
                         FmgCompression |-> Get(fmg, "Compression", NoneValue)]
         IN  IF \E e \in 1..Len(entries) : "ID" \notin DOMAIN entries[e]
             THEN [raised |-> TRUE, structure |-> structure, entry_ids |-> entry_ids]
             ELSE build_loop(wrappers, k + 1, Append(structure, block), entry_ids \o ids)

\* build_structure_and_entryids(json_data) -> top_name, structure, entry_ids
build_structure_and_entryids(json_data) ==
    LET r == build_loop(Get(json_data, "FmgWrappers", <<>>), 1, <<>>, <<>>)
    IN  [raised |-> r.raised, top_name |-> Get(json_data, "Name", ""),
         structure |-> r.structure, entry_ids |-> r.entry_ids]

RECURSIVE flat_texts(_, _)
\* on_start_extract: texts.append(entry.get("Text", "")) over wrappers, entries
flat_texts(wrappers, k) ==
    IF k > Len(wrappers)
    THEN <<>>
    ELSE LET entries == Get(Get(wrappers[k], "Fmg", <<>>), "Entries", <<>>)
         IN  [e \in 1..Len(entries) |-> Get(entries[e], "Text", <<>>)]
             \o flat_texts(wrappers, k + 1)

\* list(range(0, n, step)) for step # 0
RangeFrom0(n, step) ==
    IF step > 0
    THEN [c \in 1..((n + step - 1) \div step) |-> (c - 1) * step]
    ELSE <<>>

\* write_header_and_parts: the files it writes into out_dir, whether it raised,
\* and what it returned.  range() with step 0 raises ValueError after the
\* header has been written; "written" maps the index i of part_i.json to the
\* part written.
write_header_and_parts(top_name, structure, entry_ids, texts, split, max_per_file) ==
    LET header == [Meta      |-> [SourceTopName |-> top_name, Version |-> 1,
                                  TotalEntries |-> Len(entry_ids)],
                   Structure |-> structure,
                   EntryIDs  |-> entry_ids]
    IN  IF ~split
        THEN [header  |-> header,
              written |-> (1 :> [Meta |-> [ChunkIndex |-> 1, ChunkCount |-> 1,
                                           StartIndex |-> 0, Count |-> Len(texts)],
                                 Entries |-> texts]),
              raised  |-> FALSE,
              ret     |-> 1]
        ELSE IF max_per_file = 0
        THEN [header |-> header, written |-> <<>>, raised |-> TRUE, ret |-> 0]
        ELSE LET starts == RangeFrom0(Len(texts), max_per_file)
                 chunks == [c \in 1..Len(starts) |->
                               Slice(texts, starts[c],
                                     IF starts[c] + max_per_file < Len(texts)
                                     THEN starts[c] + max_per_file ELSE Len(texts))]
                 chunk_count == Len(chunks)
             IN  [header  |-> header,
                  written |-> [i \in 1..chunk_count |->
                                 [Meta |-> [ChunkIndex |-> i, ChunkCount |-> chunk_count,
                                            StartIndex |-> (i - 1) * max_per_file,
                                            Count |-> Len(chunks[i])],
                                  Entries |-> chunks[i]]],
                  raised  |-> FALSE,
                  ret     |-> chunk_count]

\* a directory's part files after writing `written` over them: a file of the
\* same name is replaced, every other file stays
Overwrite(parts, written) ==
    [i \in (DOMAIN parts) \cup (DOMAIN written) |->
        IF i \in DOMAIN written THEN written[i] ELSE parts[i]]

RECURSIVE SortedIndexes(_)
\* sorted(part file names): part_<i>.json in ascending i (fewer than 10 files,
\* so the lexicographic order of the names is the numeric one)
SortedIndexes(S) ==
    IF S = {} THEN <<>>
    ELSE LET m == CHOOSE x \in S : \A y \in S : x <= y
         IN  <<m>> \o SortedIndexes(S \ {m})

\* place_part with the part's StartIndex left out (gi = i)
place_part_ignores_start(texts, total, pdata) ==
    LET arr == pdata.Entries
    IN  [g \in 1..Len(texts) |->
            IF g - 1 < Len(arr) /\ g - 1 < total THEN arr[g] ELSE texts[g]]

\* the inner loop of merge_folder for one part: texts[gi] = t when 0 <= gi < total
place_part(texts, total, pdata) ==
    LET start == pdata.Meta.StartIndex
        arr   == pdata.Entries
    IN  [g \in 1..Len(texts) |->
            LET i == (g - 1) - start   \* gi = g - 1 = start + i
            IN  IF 0 <= i /\ i < Len(arr) /\ 0 <= g - 1 /\ g - 1 < total
                THEN arr[i + 1] ELSE texts[g]]

RECURSIVE place_parts(_, _, _, _)
\* for pf in part_files: ... of merge_folder
place_parts(texts, total, parts, names) ==
    IF names = <<>> THEN texts
    ELSE place_parts(place_part(texts, total, parts[Head(names)]), total, parts,
                     Tail(names))

\* merge_folder(folder_path): header is a sequence holding 0_header.json when
\* the file exists; parts maps i to part_i.json for the files that exist
merge_folder(header_file, parts) ==
    IF header_file = <<>>
    THEN [raised |-> TRUE, top_name |-> "", structure |-> <<>>, merged_entries |-> <<>>]
    ELSE LET header    == header_file[1]
             entry_ids == header.EntryIDs
             total     == header.Meta.TotalEntries
             part_files == SortedIndexes(DOMAIN parts)
         IN  IF part_files = <<>>
             THEN [raised |-> TRUE, top_name |-> "", structure |-> <<>>,
                   merged_entries |-> <<>>]
             ELSE LET texts == place_parts([g \in 1..total |-> <<>>], total, parts,
                                           part_files)
                  IN  [raised   |-> FALSE,
                       top_name |-> header.Meta.SourceTopName,
                       structure |-> header.Structure,
                       merged_entries |->
                           [i \in 1..Len(entry_ids) |->
                               [ID   |-> entry_ids[i],
                                Text |-> IF i <= Len(texts) THEN texts[i] ELSE <<>>]]]

\* restore_original_from_parts(top_name, structure, merged_entries)
restore_original_from_parts(top_name, structure, merged_entries) ==
    LET entry_ids == [i \in 1..Len(merged_entries) |-> merged_entries[i].ID]
        entry_of(idx) ==
            [ID   |-> IF 0 <= idx /\ idx < Len(entry_ids) THEN entry_ids[idx + 1]
                      ELSE NoneID,
             Text |-> IF 0 <= idx /\ idx < Len(merged_entries)
                      THEN merged_entries[idx + 1].Text ELSE <<>>]
    IN  [Name |-> top_name,
         FmgWrappers |->
            [b \in 1..Len(structure) |->
                [Name |-> structure[b].WrapperName,
                 ID   |-> structure[b].WrapperID,
                 Fmg  |-> [Name    |-> structure[b].FmgName,
                           Entries |-> [e \in 1..Len(structure[b].EntryIndexes) |->
                                           entry_of(structure[b].EntryIndexes[e])],
                           Version     |-> structure[b].FmgVersion,
                           BigEndian   |-> structure[b].FmgBigEndian,
                           Unicode     |-> structure[b].FmgUnicode,
                           Compression |-> structure[b].FmgCompression]]]]

\* ------------------------------------------------------------------------
\* translation of one batch
\* ------------------------------------------------------------------------
\* the deterministic provider: the text with the suffix _zh
Tr(text) == text \o <<"_zh">>

\* the JSON array a well-behaved provider answers: one {index, text} per item
FullResponse(texts) ==
    [kind |-> "list", items |-> [o \in 1..Len(texts) |-> [index |-> o - 1, text |-> Tr(texts[o])]]]

\* the request raised (network failure, timeout) or the answer did not parse
ErrorResponse == [kind |-> "error", items |-> <<>>]

\* what a provider can answer to one request
ProviderResponses(provider, texts) ==
    IF provider = "suffix"
    THEN {FullResponse(texts)}
    ELSE {FullResponse(texts), ErrorResponse}

\* translate_batch, the translations (ChatGPT-like path): translations[idx] =
\* txt for every parsed object with 0 <= idx < len(texts) (a later object
\* wins), the original where none was given; the originals on an exception or
\* when the answer is no list
translations_of(texts, resp) ==
    IF resp.kind = "list"
    THEN [o \in 1..Len(texts) |->
            LET hits == {h \in 1..Len(resp.items) : resp.items[h].index = o - 1}
            IN  IF hits = {} THEN texts[o]
                ELSE resp.items[CHOOSE h \in hits : \A g \in hits : g <= h].text]
    ELSE texts

\* a text that shares no character with any source text
Garbled == <<"?">>

RECURSIVE CommonPrefix(_, _)
\* the characters SequenceMatcher matches, for the texts of this model (runs
\* of one character, or Garbled): the length of the common prefix
CommonPrefix(a, b) ==
    IF a = <<>> \/ b = <<>> \/ Head(a) # Head(b) THEN 0
    ELSE 1 + CommonPrefix(Tail(a), Tail(b))

\* similarity(a, b) = SequenceMatcher(None, a, b).ratio() = 2 * M / T, in
\* hundredths (1.0 when both are empty); lower() changes none of the
\* characters used here
similarity(a, b) ==
    IF Len(a) + Len(b) = 0 THEN 100
    ELSE (200 * CommonPrefix(a, b)) \div (Len(a) + Len(b))

\* what the back-translation request can answer for a batch: every item given
\* back as its source text, every item given back garbled, or no usable answer
BackResponses(texts) ==
    {[kind |-> "list", items |-> [o \in 1..Len(texts) |-> [index |-> o - 1, text |-> texts[o]]]],
     [kind |-> "list", items |-> [o \in 1..Len(texts) |-> [index |-> o - 1, text |-> Garbled]]],
     ErrorResponse}

\* translate_batch, the back-translation block: one (idx, bt, score) per parsed
\* object with 0 <= idx < len(texts); nothing on an exception
back_checks_of(texts, back_resp) ==
    IF back_resp.kind = "list"
    THEN LET ok == {h \in 1..Len(back_resp.items) :
                       0 <= back_resp.items[h].index /\ back_resp.items[h].index < Len(texts)}
         IN  {[index |-> back_resp.items[h].index,
               back_text |-> back_resp.items[h].text,
               score |-> similarity(texts[back_resp.items[h].index + 1],
                                    back_resp.items[h].text)] : h \in ok}
    ELSE {}

\* translate_batch with the back-translation overwriting a translation whose
\* score is below 0.6 by the back-translated text
translate_batch_back_overwrites(texts, resp, back_check, back_resp) ==
    LET translations == translations_of(texts, resp)
        back_checks  == IF back_check THEN back_checks_of(texts, back_resp) ELSE {}
        low(o)       == {b \in back_checks : b.index = o - 1 /\ b.score < 60}
    IN  [translations |-> [o \in 1..Len(texts) |->
                              IF low(o) = {} THEN translations[o]
                              ELSE (CHOOSE b \in low(o) : TRUE).back_text],
         back_checks  |-> back_checks]

\* translate_batch with the error fallback returning empty strings
translate_batch_error_blank(texts, resp, back_check, back_resp) ==
    [translations |-> IF resp.kind = "list" THEN translations_of(texts, resp)
                      ELSE [o \in 1..Len(texts) |-> <<>>],
     back_checks  |-> IF back_check THEN back_checks_of(texts, back_resp) ELSE {}]

\* translate_batch(api_name, api_key, texts, ..., back_check) -> translations,
\* back_checks (the list of back checks as a set: one record per index)
translate_batch(texts, resp, back_check, back_resp) ==
    LET translations == translations_of(texts, resp)
    IN  [translations |-> translations,
         back_checks  |-> IF back_check THEN back_checks_of(texts, back_resp) ELSE {}]

\* ------------------------------------------------------------------------
\* state
\* ------------------------------------------------------------------------
VARIABLES
    \* one call of split_into_batches, run loop iteration by loop iteration
    sp_texts, sp_mode, sp_max_tokens, sp_manual_tokens, sp_i, sp_batches, sp_pc,
    \* extract / merge tabs: the source document, the <name>_extracted directory
    \* (0_header.json as a sequence of 0 or 1 files, part_<i>.json by i), the
    \* last message box shown (by the extract or the merge handler), and the
    \* merged output file (0 or 1 files); the split checkbox and the "max
    \* entries per part" field of the extract tab; the chunk count the extract
    \* handler got back from write_header_and_parts (-1 while it has none)
    x_doc, x_pc, fs_header, fs_parts, x_msg, x_out, extract_split_var, extract_max_var,
    \* what merge_folder returned to the last on_start_merge (merged_entries)
    x_merged,
    x_count,
    \* translate tab.  The extracted folder (part_<i>.json by i) and the settings
    \* read by on_start_translate:
    in_parts, threads, batch_mode, max_tokens, manual_tokens, provider, back_check,
    \* App fields: _translation_running, stop_event, pause_event, total_tasks,
    \* done_tasks, and the pending root.after(100, _on_translate_finished)
    running, stop_event, pause_event, total_tasks, done_tasks, ui_after,
    \* _process_parts_worker: where the thread stands, the position of pf in
    \* part_files, and its closure cells q (with q.unfinished_tasks) and results
    m_pc, m_k, q, unfinished, results,
    \* the live batch_worker threads (a bag of their local states) and the
    \* <folder>_translated directory (part_<i>.json by i)
    workers, out_parts,
    \* bookkeeping: writes into each slot of results, whether pause has been
    \* cleared in this run, runs started
    writes, resumed, runs,
    \* back-translation: the cell part_back_checks, the file back_checks.json of
    \* the _translated directory (part file -> records), the low-score warnings
    \* in the log; and, as bookkeeping, the batches whose provider call failed
    part_back_checks, bc_file, warns, failed_batches,
    \* the batches named by a "[ERROR] 批次翻译失败" line of the log
    error_log,
    \* one call of translate_batch: its arguments (the batch, the provider's
    \* answer, back_check and the back-translation's answer) and what it returned
    tb_texts, tb_resp, tb_back_check, tb_back_resp, tb_out, tb_pc

sp_vars == <<sp_texts, sp_mode, sp_max_tokens, sp_manual_tokens, sp_i,
             sp_batches, sp_pc>>

x_vars == <<x_doc, x_pc, fs_header, fs_parts, x_msg, x_out, extract_split_var,
            extract_max_var, x_count, x_merged>>

t_cfg == <<in_parts, threads, batch_mode, max_tokens, manual_tokens, provider,
           back_check>>

t_flags == <<running, stop_event, pause_event, resumed, runs, ui_after>>

t_main == <<m_pc, m_k, q, unfinished, results, writes, workers, out_parts>>

t_progress == <<total_tasks, done_tasks>>

t_back == <<part_back_checks, bc_file, warns, failed_batches, error_log>>

t_vars == <<t_cfg, t_flags, t_main, t_progress, t_back>>

tb_vars == <<tb_texts, tb_resp, tb_back_check, tb_back_resp, tb_out, tb_pc>>

vars == <<sp_vars, x_vars, t_vars, tb_vars>>

Budgets == (0 - 1)..MaxBudget

\* no call of split_into_batches in progress
SplitIdle ==
    /\ sp_texts = <<>>
    /\ sp_mode = "auto"
    /\ sp_max_tokens = 0
    /\ sp_manual_tokens = 0
    /\ sp_i = 0
    /\ sp_batches = <<>>
    /\ sp_pc = "idle"

\* no call of translate_batch in progress
BatchIdle ==
    /\ tb_texts = <<>>
    /\ tb_resp = ErrorResponse
    /\ tb_back_check = FALSE
    /\ tb_back_resp = ErrorResponse
    /\ tb_out = <<>>
    /\ tb_pc = "idle"

\* ---- translate tab: idle ----
\* the App as constructed, no folder chosen
TranslateIdle ==
    /\ in_parts = <<>>
    /\ threads = 1
    /\ batch_mode = "auto"
    /\ max_tokens = 0
    /\ manual_tokens = 0
    /\ provider = "suffix"
    /\ back_check = FALSE
    /\ running = FALSE
    /\ stop_event = FALSE
    /\ pause_event = FALSE
    /\ total_tasks = 0
    /\ done_tasks = 0
    /\ ui_after = FALSE
    /\ m_pc = "none"
    /\ m_k = 0
    /\ q = <<>>
    /\ unfinished = 0
    /\ results = <<>>
    /\ workers = EmptyBag
    /\ out_parts = <<>>
    /\ writes = <<>>
    /\ resumed = FALSE
    /\ runs = 0
    /\ part_back_checks = {}
    /\ bc_file = <<>>
    /\ warns = {}
    /\ failed_batches = {}
    /\ error_log = {}

\* ---- extract / merge tabs ----
EntryIDs == {1, 2}
EntryTexts == {TextOfLen(0), TextOfLen(1)}
EntryValues == [ID : EntryIDs, Text : EntryTexts]

\* the k-th FmgWrapper of a source document with the given entries
Wrapper(k, entries) ==
    [Name |-> "wrapper", ID |-> k,
     Fmg  |-> [Name |-> "fmg", Entries |-> entries, Version |-> 2,
               BigEndian |-> FALSE, Unicode |-> TRUE, Compression |-> 0]]

\* the source documents tried: up to MaxGroups wrappers of up to MaxEntries entries
Documents ==
    {[Name |-> "menu", FmgWrappers |-> [k \in 1..Len(es) |-> Wrapper(k, es[k])]] :
        es \in SeqsUpTo(SeqsUpTo(EntryValues, MaxEntries), MaxGroups)}

ChunkSizes == (0 - 1)..MaxChunk

\* no document chosen, nothing extracted
ExtractIdle ==
    /\ x_doc = [Name |-> "", FmgWrappers |-> <<>>]
    /\ x_pc = "idle"
    /\ fs_header = <<>>
    /\ fs_parts = <<>>
    /\ x_msg = "none"
    /\ x_out = <<>>
    /\ x_merged = <<>>
    /\ extract_split_var = FALSE
    /\ extract_max_var = 0
    /\ x_count = 0 - 1

\* a source document is chosen and the extract tab filled in; the _extracted
\* directory does not exist yet
ExtractInit ==
    /\ x_doc \in Documents
    /\ extract_split_var \in BOOLEAN
    /\ extract_max_var \in ChunkSizes
    /\ x_pc = "ready"
    /\ fs_header = <<>>
    /\ fs_parts = <<>>
    /\ x_msg = "none"
    /\ x_out = <<>>
    /\ x_merged = <<>>
    /\ x_count = 0 - 1
    /\ SplitIdle
    /\ TranslateIdle
    /\ BatchIdle

\* App.on_start_extract: maxn = int(extract_max_var) if split_flag else 0.
\* build_structure_and_entryids is called outside the try block: when it raises,
\* the handler ends there, with no file written and no message box
on_start_extract ==
    /\ x_pc = "ready"
    /\ LET b     == build_structure_and_entryids(x_doc)
           texts == flat_texts(x_doc.FmgWrappers, 1)
           split_flag == extract_split_var
           maxn  == IF split_flag THEN extract_max_var ELSE 0
           w     == write_header_and_parts(b.top_name, b.structure, b.entry_ids,
                                           texts, split_flag, maxn)
       IN  IF b.raised
           THEN /\ x_msg' = "extract:crash"
                /\ UNCHANGED <<fs_header, fs_parts, x_count>>
           ELSE /\ fs_header' = <<w.header>>
                /\ fs_parts' = Overwrite(fs_parts, w.written)
                /\ x_msg' = IF w.raised THEN "extract:error" ELSE "extract:info"
                /\ x_count' = IF w.raised THEN x_count ELSE w.ret
    /\ x_pc' = "extracted"
    /\ UNCHANGED <<x_doc, x_out, x_merged, extract_split_var, extract_max_var>>
    /\ UNCHANGED <<sp_vars, t_vars, tb_vars>>

\* App.on_start_merge on the _extracted directory
on_start_merge ==
    /\ x_pc \in {"ready", "extracted"}
    /\ LET m == merge_folder(fs_header, fs_parts)
       IN  IF m.raised
           THEN /\ x_msg' = "merge:error"
                /\ x_out' = x_out
                /\ x_merged' = x_merged
           ELSE /\ x_msg' = "merge:info"
                /\ x_out' = <<restore_original_from_parts(m.top_name, m.structure,
                                                          m.merged_entries)>>
                /\ x_merged' = <<m.merged_entries>>
    /\ UNCHANGED <<x_doc, x_pc, fs_header, fs_parts, extract_split_var,
                   extract_max_var, x_count>>
    /\ UNCHANGED <<sp_vars, t_vars, tb_vars>>

ExtractNext == on_start_extract \/ on_start_merge

ExtractSpec == ExtractInit /\ [][ExtractNext]_vars

\* the entries tried in a malformed document: complete, without Text, without ID
EntryForms == {[ID |-> 1, Text |-> TextOfLen(1)], [ID |-> 1], [Text |-> TextOfLen(1)]}

\* the k-th FmgWrapper with the given entries: complete, without Name, without ID
WrapperForms(k, entries) ==
    {Wrapper(k, entries),
     [ID |-> k, Fmg |-> Wrapper(k, entries).Fmg],
     [Name |-> "wrapper", Fmg |-> Wrapper(k, entries).Fmg]}

\* a group or an entry of the document lacks a required field
Malformed(doc) ==
    \E k \in 1..Len(doc.FmgWrappers) :
        \/ {"Name", "ID"} \ DOMAIN doc.FmgWrappers[k] # {}
        \/ \E e \in 1..Len(doc.FmgWrappers[k].Fmg.Entries) :
              {"ID", "Text"} \ DOMAIN doc.FmgWrappers[k].Fmg.Entries[e] # {}

\* the documents of one or two wrappers of up to MaxEntries entries in which
\* some group or entry lacks a required field
MalformedDocuments ==
    LET one == UNION {WrapperForms(1, es) : es \in SeqsUpTo(EntryForms, MaxEntries)}
        two == UNION {WrapperForms(2, es) : es \in SeqsUpTo(EntryForms, MaxEntries)}
        all == {[Name |-> "menu", FmgWrappers |-> <<a>>] : a \in one}
               \cup {[Name |-> "menu", FmgWrappers |-> <<a, b>>] : a \in one, b \in two}
    IN  {d \in all : Malformed(d)}

\* a malformed source document is chosen and the extract tab filled in
MalformedInit ==
    /\ x_doc \in MalformedDocuments
    /\ extract_split_var \in BOOLEAN
    /\ extract_max_var \in ChunkSizes
    /\ x_pc = "ready"
    /\ fs_header = <<>>
    /\ fs_parts = <<>>
    /\ x_msg = "none"
    /\ x_out = <<>>
    /\ x_merged = <<>>
    /\ x_count = 0 - 1
    /\ SplitIdle
    /\ TranslateIdle
    /\ BatchIdle

MalformedSpec == MalformedInit /\ [][ExtractNext]_vars

\* the part files i of S, out of those of a directory
KeepParts(parts, S) == [i \in S |-> parts[i]]

\* a folder chosen in the merge tab: what an extraction left, less any of its
\* files (0_header.json, part_<i>.json) that have gone missing since
MergeInit ==
    /\ x_doc \in Documents
    /\ extract_split_var \in BOOLEAN
    /\ extract_max_var \in ChunkSizes
    /\ LET b     == build_structure_and_entryids(x_doc)
           texts == flat_texts(x_doc.FmgWrappers, 1)
           maxn  == IF extract_split_var THEN extract_max_var ELSE 0
           w     == write_header_and_parts(b.top_name, b.structure, b.entry_ids,
                                           texts, extract_split_var, maxn)
       IN  /\ fs_header \in {<<>>, <<w.header>>}
           /\ fs_parts \in {KeepParts(w.written, S) : S \in SUBSET (DOMAIN w.written)}
           /\ x_msg = IF w.raised THEN "extract:error" ELSE "extract:info"
           /\ x_count = IF w.raised THEN 0 - 1 ELSE w.ret
    /\ x_pc = "extracted"
    /\ x_out = <<>>
    /\ x_merged = <<>>
    /\ SplitIdle
    /\ TranslateIdle
    /\ BatchIdle

MergeNext == on_start_merge

MergeSpec == MergeInit /\ [][MergeNext]_vars

\* the earlier versions of the source file tried: one wrapper of up to
\* MaxEntries entries
EarlierDocuments ==
    {[Name |-> "menu", FmgWrappers |-> <<Wrapper(1, es)>>] :
        es \in SeqsUpTo([ID : {1}, Text : EntryTexts], MaxEntries)}

\* the _extracted directory already holds what an earlier extraction of the
\* source file wrote (other texts, other settings of the extract tab); the
\* file as it is now is chosen and the extract tab filled in
ReExtractInit ==
    /\ x_doc \in Documents
    /\ extract_split_var \in BOOLEAN
    /\ extract_max_var \in ChunkSizes
    /\ x_pc = "ready"
    /\ \E d \in EarlierDocuments, split \in BOOLEAN, maxn \in ChunkSizes :
         LET b == build_structure_and_entryids(d)
             w == write_header_and_parts(b.top_name, b.structure, b.entry_ids,
                                         flat_texts(d.FmgWrappers, 1), split,
                                         IF split THEN maxn ELSE 0)
         IN  /\ fs_header = <<w.header>>
             /\ fs_parts = w.written
    /\ x_msg = "none"
    /\ x_out = <<>>
    /\ x_merged = <<>>
    /\ x_count = 0 - 1
    /\ SplitIdle
    /\ TranslateIdle
    /\ BatchIdle

ReExtractSpec == ReExtractInit /\ [][ExtractNext]_vars

\* entry of split_into_batches: batches = [], n = len(texts), i = 0
SplitInit ==
    /\ sp_texts \in SeqsUpTo(SplitTexts, MaxLen)
    /\ sp_mode \in {"auto", "manual"}
    /\ sp_max_tokens \in Budgets
    /\ sp_manual_tokens \in Budgets
    /\ sp_i = 0
    /\ sp_batches = <<>>
    /\ sp_pc = "loop"
    /\ ExtractIdle
    /\ TranslateIdle
    /\ BatchIdle

\* one iteration of the outer while (i < n): append the batch, i = j
SplitIterate ==
    /\ sp_pc = "loop"
    /\ sp_i < Len(sp_texts)
    /\ LET b == next_batch(sp_texts, sp_i, sp_mode, sp_max_tokens, sp_manual_tokens)
       IN  /\ sp_batches' = Append(sp_batches, b)
           /\ sp_i' = b.e
    /\ UNCHANGED <<sp_texts, sp_mode, sp_max_tokens, sp_manual_tokens, sp_pc>>
    /\ UNCHANGED <<x_vars, t_vars, tb_vars>>

\* the outer while ends (i >= n): return batches
SplitReturn ==
    /\ sp_pc = "loop"
    /\ sp_i >= Len(sp_texts)
    /\ sp_pc' = "done"
    /\ UNCHANGED <<sp_texts, sp_mode, sp_max_tokens, sp_manual_tokens, sp_i,
                   sp_batches>>
    /\ UNCHANGED <<x_vars, t_vars, tb_vars>>

SplitNext == SplitIterate \/ SplitReturn

SplitSpec == SplitInit /\ [][SplitNext]_vars

SplitFairSpec == SplitSpec /\ WF_vars(SplitNext)

\* ------------------------------------------------------------------------
\* one call of translate_batch
\* ------------------------------------------------------------------------
\* the batches tried: up to MaxBatch texts
BatchTexts == {TextOfLen(1), TextOfLen(5)}

\* the answers a provider can give to one request: the full array, the array
\* without its last object, the array with one more object (for an index past
\* the batch, or for index 0 a second time), or nothing that parses
BatchResponses(texts) ==
    LET full == FullResponse(texts).items
    IN  {[kind |-> "list", items |-> full],
         [kind |-> "list", items |-> SubSeq(full, 1, Len(full) - 1)],
         [kind |-> "list", items |-> Append(full, [index |-> Len(texts), text |-> Garbled])],
         [kind |-> "list", items |-> Append(full, [index |-> 0, text |-> Garbled])],
         ErrorResponse}

\* the call is about to be made
BatchInit ==
    /\ tb_texts \in SeqsUpTo(BatchTexts, MaxBatch)
    /\ tb_resp \in BatchResponses(tb_texts)
    /\ tb_back_check \in BOOLEAN
    /\ tb_back_resp \in (IF tb_back_check THEN BackResponses(tb_texts) ELSE {ErrorResponse})
    /\ tb_out = <<>>
    /\ tb_pc = "call"
    /\ SplitIdle
    /\ ExtractIdle
    /\ TranslateIdle

\* translate_batch runs and returns (translations, back_checks)
translate_batch_call ==
    /\ tb_pc = "call"
    /\ tb_out' = <<translate_batch(tb_texts, tb_resp, tb_back_check, tb_back_resp)>>
    /\ tb_pc' = "done"
    /\ UNCHANGED <<tb_texts, tb_resp, tb_back_check, tb_back_resp>>
    /\ UNCHANGED <<sp_vars, x_vars, t_vars>>

BatchNext == translate_batch_call

BatchSpec == BatchInit /\ [][BatchNext]_vars

\* ------------------------------------------------------------------------
\* the translation run
\* ------------------------------------------------------------------------
RunTexts == {TextOfLen(1), TextOfLen(5)}

\* part_files = sorted(part_*.json of the folder)
part_files == SortedIndexes(DOMAIN in_parts)

\* pdata of the part the for loop stands at
CurPart == in_parts[part_files[m_k]]

RECURSIVE SumCounts(_, _)
\* total += len(pdata["Entries"]) over part_files
SumCounts(parts, names) ==
    IF names = <<>> THEN 0
    ELSE Len(parts[Head(names)].Entries) + SumCounts(parts, Tail(names))

\* the local state of a batch_worker thread started for part `born`
IdleWorker(born, pc) == [pc |-> pc, born |-> born, s |-> 0, e |-> 0, texts |-> <<>>]

Replace(bag, old, new) == (bag (-) SetToBag({old})) (+) SetToBag({new})

\* the folder left by an extraction, and the settings typed into the tab
\* (all but the back-translation checkbox)
RunInit ==
    /\ \E texts \in SeqsUpTo(RunTexts, MaxFlat), split \in BOOLEAN, maxn \in ChunkSizes :
         in_parts = write_header_and_parts("menu", <<>>, [i \in 1..Len(texts) |-> i],
                                           texts, split, IF split THEN maxn ELSE 0).written
    /\ threads \in 1..MaxThreads
    /\ batch_mode \in {"auto", "manual"}
    /\ max_tokens = AutoBudget
    /\ manual_tokens = ManualBudget
    /\ provider \in {"suffix", "flaky"}
    /\ running = FALSE
    /\ stop_event = FALSE
    /\ pause_event = FALSE
    /\ total_tasks = 0
    /\ done_tasks = 0
    /\ ui_after = FALSE
    /\ m_pc = "none"
    /\ m_k = 0
    /\ q = <<>>
    /\ unfinished = 0
    /\ results = <<>>
    /\ workers = EmptyBag
    /\ out_parts = <<>>
    /\ writes = <<>>
    /\ resumed = FALSE
    /\ runs = 0
    /\ part_back_checks = {}
    /\ bc_file = <<>>
    /\ warns = {}
    /\ failed_batches = {}
    /\ error_log = {}
    /\ SplitIdle
    /\ ExtractIdle
    /\ BatchIdle

\* a run with the back-translation checkbox off
TranslateInit == RunInit /\ back_check = FALSE

\* a run with the back-translation checkbox on
BackInit == RunInit /\ back_check = TRUE

\* App.on_start_translate, no part file in the folder: the error is logged and
\* the tab unlocked again
on_start_translate_no_parts ==
    /\ ~running
    /\ runs < MaxRuns
    /\ part_files = <<>>
    /\ runs' = runs + 1
    /\ stop_event' = FALSE
    /\ pause_event' = FALSE
    /\ running' = FALSE
    /\ resumed' = FALSE
    /\ warns' = {}
    /\ error_log' = {}
    /\ UNCHANGED <<ui_after, t_cfg, t_main, t_progress>>
    /\ UNCHANGED <<part_back_checks, bc_file, failed_batches>>
    /\ UNCHANGED <<sp_vars, x_vars, tb_vars>>

\* App.on_start_translate: the flags are cleared, total_tasks is the sum of the
\* parts' entry counts, done_tasks is 0, the _process_parts_worker thread starts.
\* Its call has fresh cells q and results; a batch_worker left over from an
\* earlier call only sees that call's drained queue and ends, so none is kept.
\* The log is emptied (log_text.delete).
on_start_translate ==
    /\ ~running
    /\ runs < MaxRuns
    /\ part_files # <<>>
    /\ runs' = runs + 1
    /\ running' = TRUE
    /\ stop_event' = FALSE
    /\ pause_event' = FALSE
    /\ resumed' = FALSE
    /\ total_tasks' = SumCounts(in_parts, part_files)
    /\ done_tasks' = 0
    /\ m_pc' = "loop"
    /\ m_k' = 1
    /\ q' = <<>>
    /\ unfinished' = 0
    /\ results' = <<>>
    /\ writes' = <<>>
    /\ workers' = EmptyBag
    /\ part_back_checks' = {}
    /\ warns' = {}
    /\ failed_batches' = {}
    /\ error_log' = {}
    /\ UNCHANGED <<ui_after, t_cfg, out_parts, bc_file>>
    /\ UNCHANGED <<sp_vars, x_vars, tb_vars>>

\* App.on_pause_toggle
on_pause_toggle ==
    /\ running
    /\ pause_event' = ~pause_event
    /\ resumed' = (resumed \/ pause_event)
    /\ UNCHANGED <<running, stop_event, runs, ui_after, t_cfg, t_main, t_progress>>
    /\ UNCHANGED <<sp_vars, x_vars, t_back, tb_vars>>

\* App.on_stop_translate
on_stop_translate ==
    /\ running
    /\ stop_event' = TRUE
    /\ UNCHANGED <<running, pause_event, resumed, runs, ui_after, t_cfg, t_main,
                   t_progress>>
    /\ UNCHANGED <<sp_vars, x_vars, t_back, tb_vars>>

\* _process_parts_worker, top of the for loop with the stop signal set: break,
\* then the finally clause schedules _on_translate_finished
MainStopBreak ==
    /\ m_pc = "loop"
    /\ m_k <= Len(part_files)
    /\ stop_event
    /\ m_pc' = "ended"
    /\ ui_after' = TRUE
    /\ UNCHANGED <<running, stop_event, pause_event, resumed, runs, t_cfg, m_k, q,
                   unfinished, results, writes, workers, out_parts, t_progress>>
    /\ UNCHANGED <<sp_vars, x_vars, t_back, tb_vars>>

\* _process_parts_worker, a part without entries: an empty copy is written
MainEmptyPart ==
    /\ m_pc = "loop"
    /\ m_k <= Len(part_files)
    /\ ~stop_event
    /\ Len(CurPart.Entries) = 0
    /\ out_parts' = Overwrite(out_parts,
                              part_files[m_k] :> [Meta |-> CurPart.Meta, Entries |-> <<>>])
    /\ m_k' = m_k + 1
    /\ UNCHANGED <<t_flags, t_cfg, m_pc, q, unfinished, results, writes, workers,
                   t_progress>>
    /\ UNCHANGED <<sp_vars, x_vars, t_back, tb_vars>>

\* the batches of the part, by the batch mode chosen
part_batches(entries) ==
    IF batch_mode = "manual"
    THEN split_into_batches(entries, "manual", 1000, manual_tokens)
    ELSE split_into_batches(entries, "auto", max_tokens, 1000)

\* _process_parts_worker, a part with entries: split into batches, rebind
\* results and q, queue every batch, rebind part_back_checks, start
\* max(1, threads) batch_worker threads, then wait in q.join()
MainStartPart ==
    /\ m_pc = "loop"
    /\ m_k <= Len(part_files)
    /\ ~stop_event
    /\ Len(CurPart.Entries) > 0
    /\ LET entries == CurPart.Entries
           batches == part_batches(entries)
       IN  /\ results' = [i \in 1..Len(entries) |-> <<>>]
           /\ writes' = [i \in 1..Len(entries) |-> 0]
           /\ q' = batches
           /\ unfinished' = Len(batches)
    /\ workers' = workers (+) [w \in {IdleWorker(m_k, "check")} |-> Max2(1, threads)]
    /\ m_pc' = "join"
    /\ part_back_checks' = {}
    /\ UNCHANGED <<t_flags, t_cfg, m_k, out_parts, t_progress>>
    /\ UNCHANGED <<bc_file, warns, failed_batches, error_log>>
    /\ UNCHANGED <<sp_vars, x_vars, tb_vars>>

\* MainJoinReturn without q.join(): the part is written without waiting
MainJoinReturn_no_join ==
    /\ m_pc = "join"
    /\ LET entries == CurPart.Entries
           final   == [i \in 1..Len(entries) |->
                         IF results[i] = <<>> THEN entries[i] ELSE results[i][1]]
       IN  /\ results' = [i \in 1..Len(entries) |-> <<final[i]>>]
           /\ out_parts' = Overwrite(out_parts,
                                     part_files[m_k] :> [Meta |-> CurPart.Meta,
                                                         Entries |-> final])
    /\ bc_file' =
         IF part_back_checks = {} THEN bc_file
         ELSE LET pf == part_files[m_k]
                  existing == IF pf \in DOMAIN bc_file THEN bc_file[pf] ELSE {}
              IN  Overwrite(bc_file, pf :> (existing \cup part_back_checks))
    /\ m_k' = m_k + 1
    /\ m_pc' = "loop"
    /\ UNCHANGED <<t_flags, t_cfg, q, unfinished, writes, workers, t_progress>>
    /\ UNCHANGED <<part_back_checks, warns, failed_batches, error_log>>
    /\ UNCHANGED <<sp_vars, x_vars, tb_vars>>

\* _process_parts_worker, q.join() returns (every queued batch has been marked
\* done): the slots still None take the original text, the part is written to
\* the _translated directory, the back checks collected for the part are added
\* to back_checks.json, the loop goes on to the next part
MainJoinReturn ==
    /\ m_pc = "join"
    /\ unfinished = 0
    /\ LET entries == CurPart.Entries
           final   == [i \in 1..Len(entries) |->
                         IF results[i] = <<>> THEN entries[i] ELSE results[i][1]]
       IN  /\ results' = [i \in 1..Len(entries) |-> <<final[i]>>]
           /\ out_parts' = Overwrite(out_parts,
                                     part_files[m_k] :> [Meta |-> CurPart.Meta,
                                                         Entries |-> final])
    /\ bc_file' =
         IF part_back_checks = {} THEN bc_file
         ELSE LET pf == part_files[m_k]
                  existing == IF pf \in DOMAIN bc_file THEN bc_file[pf] ELSE {}
              IN  Overwrite(bc_file, pf :> (existing \cup part_back_checks))
    /\ m_k' = m_k + 1
    /\ m_pc' = "loop"
    /\ UNCHANGED <<t_flags, t_cfg, q, unfinished, writes, workers, t_progress>>
    /\ UNCHANGED <<part_back_checks, warns, failed_batches, error_log>>
    /\ UNCHANGED <<sp_vars, x_vars, tb_vars>>

\* _process_parts_worker, the for loop is exhausted: the finally clause
\* schedules _on_translate_finished
MainLoopEnd ==
    /\ m_pc = "loop"
    /\ m_k > Len(part_files)
    /\ m_pc' = "ended"
    /\ ui_after' = TRUE
    /\ UNCHANGED <<running, stop_event, pause_event, resumed, runs, t_cfg, m_k, q,
                   unfinished, results, writes, workers, out_parts, t_progress>>
    /\ UNCHANGED <<sp_vars, x_vars, t_back, tb_vars>>

\* App._on_translate_finished, run by the UI thread
on_translate_finished ==
    /\ ui_after
    /\ ui_after' = FALSE
    /\ running' = FALSE
    /\ m_pc' = "none"
    /\ UNCHANGED <<stop_event, pause_event, resumed, runs, t_cfg, m_k, q, unfinished,
                   results, writes, workers, out_parts, t_progress>>
    /\ UNCHANGED <<sp_vars, x_vars, t_back, tb_vars>>

\* WorkerCheck without the test of pause_event
WorkerCheck_ignores_pause(w) ==
    /\ w.pc = "check"
    /\ \/ /\ stop_event
          /\ workers' = workers (-) SetToBag({w})
       \/ /\ ~stop_event
          /\ workers' = Replace(workers, w, [w EXCEPT !.pc = "get"])
    /\ UNCHANGED <<t_flags, t_cfg, m_pc, m_k, q, unfinished, results, writes,
                   out_parts, t_progress>>
    /\ UNCHANGED <<sp_vars, x_vars, t_back, tb_vars>>

\* batch_worker, top of the while loop: stop set -> the thread ends; pause set
\* -> sleep and look again (no change of state); else go on to q.get
WorkerCheck(w) ==
    /\ w.pc = "check"
    /\ \/ /\ stop_event
          /\ workers' = workers (-) SetToBag({w})
       \/ /\ ~stop_event
          /\ ~pause_event
          /\ workers' = Replace(workers, w, [w EXCEPT !.pc = "get"])
    /\ UNCHANGED <<t_flags, t_cfg, m_pc, m_k, q, unfinished, results, writes,
                   out_parts, t_progress>>
    /\ UNCHANGED <<sp_vars, x_vars, t_back, tb_vars>>

\* WorkerGet reading the head of the queue without removing it
WorkerGet_peek(w) ==
    /\ w.pc = "get"
    /\ IF q # <<>>
       THEN /\ q' = q
            /\ workers' = Replace(workers, w,
                                  [w EXCEPT !.pc = "translate", !.s = Head(q).s,
                                            !.e = Head(q).e, !.texts = Head(q).texts])
       ELSE /\ q' = q
            /\ workers' = workers (-) SetToBag({w})
    /\ UNCHANGED <<t_flags, t_cfg, m_pc, m_k, unfinished, results, writes, out_parts,
                   t_progress>>
    /\ UNCHANGED <<sp_vars, x_vars, t_back, tb_vars>>

\* batch_worker, q.get(timeout=0.5) on the queue the cell q holds now: the
\* first batch queued, or Empty after the timeout and the thread ends
WorkerGet(w) ==
    /\ w.pc = "get"
    /\ IF q # <<>>
       THEN /\ q' = Tail(q)
            /\ workers' = Replace(workers, w,
                                  [w EXCEPT !.pc = "translate", !.s = Head(q).s,
                                            !.e = Head(q).e, !.texts = Head(q).texts])
       ELSE /\ q' = q
            /\ workers' = workers (-) SetToBag({w})
    /\ UNCHANGED <<t_flags, t_cfg, m_pc, m_k, unfinished, results, writes, out_parts,
                   t_progress>>
    /\ UNCHANGED <<sp_vars, x_vars, t_back, tb_vars>>

\* write_index with the batch's start left out (idx = offset)
write_index_no_start(s, offset) == offset

\* idx = s + offset
write_index(s, offset) == s + offset

\* the offsets of trans whose idx is slot i (0-based) of results
offsets_at(i, s, trans) == {o \in 0..(Len(trans) - 1) : write_index(s, o) = i}

\* write_back storing every translation one slot further (results[s + offset + 1])
write_back_next_slot(res, s, trans) ==
    [i \in 1..Len(res) |->
        LET hits == {o \in 0..(Len(trans) - 1) : s + o + 1 = i - 1}
        IN  IF hits = {} THEN res[i]
            ELSE <<trans[(CHOOSE o \in hits : \A g \in hits : g <= o) + 1]>>]

\* for offset, ttxt in enumerate(trans): results[s + offset] = ttxt
write_back(res, s, trans) ==
    [i \in 1..Len(res) |->
        LET hits == offsets_at(i - 1, s, trans)
        IN  IF hits = {} THEN res[i]
            ELSE <<trans[(CHOOSE o \in hits : \A g \in hits : g <= o) + 1]>>]

\* batch_worker, translate_batch returns: the translations are written back
\* into results, the back checks are collected under their index in the part,
\* and a warning is logged for every score below 0.6
WorkerTranslate(w) ==
    /\ w.pc = "translate"
    /\ \E resp \in ProviderResponses(provider, w.texts) :
       \E back_resp \in (IF back_check THEN BackResponses(w.texts) ELSE {ErrorResponse}) :
         LET r     == translate_batch(w.texts, resp, back_check, back_resp)
             trans == r.translations
             back  == {[index |-> w.s + b.index, back_text |-> b.back_text,
                        score |-> b.score] : b \in r.back_checks}
         IN  /\ results' = write_back(results, w.s, trans)
             /\ writes' = [i \in 1..Len(writes) |->
                              writes[i] + Cardinality(offsets_at(i - 1, w.s, trans))]
             /\ part_back_checks' = part_back_checks \cup back
             /\ warns' = warns \cup {[pf |-> part_files[m_k], index |-> b.index] :
                                       b \in {c \in back : c.score < 60}}
             /\ failed_batches' =
                  IF resp.kind = "error"
                  THEN failed_batches \cup {[pf |-> part_files[m_k], s |-> w.s, e |-> w.e]}
                  ELSE failed_batches
             \* translate_batch has returned: the except branch, the only
             \* place that logs a failed batch, is not entered
             /\ error_log' = error_log
    /\ workers' = Replace(workers, w, [w EXCEPT !.pc = "progress"])
    /\ UNCHANGED <<t_flags, t_cfg, m_pc, m_k, q, unfinished, out_parts, t_progress,
                   bc_file>>
    /\ UNCHANGED <<sp_vars, x_vars, tb_vars>>

\* WorkerProgress counting the batch as one (done_tasks += 1)
WorkerProgress_counts_batches(w) ==
    /\ w.pc = "progress"
    /\ done_tasks' = done_tasks + 1
    /\ workers' = Replace(workers, w, [w EXCEPT !.pc = "task_done"])
    /\ UNCHANGED <<t_flags, t_cfg, m_pc, m_k, q, unfinished, results, writes,
                   out_parts, total_tasks>>
    /\ UNCHANGED <<sp_vars, x_vars, t_back, tb_vars>>

\* WorkerProgress adding the batch's end index instead of its size
WorkerProgress_adds_end(w) ==
    /\ w.pc = "progress"
    /\ done_tasks' = done_tasks + w.e
    /\ workers' = Replace(workers, w, [w EXCEPT !.pc = "task_done"])
    /\ UNCHANGED <<t_flags, t_cfg, m_pc, m_k, q, unfinished, results, writes,
                   out_parts, total_tasks>>
    /\ UNCHANGED <<sp_vars, x_vars, t_back, tb_vars>>

\* batch_worker: with self._progress_lock: self.done_tasks += (e - s)
WorkerProgress(w) ==
    /\ w.pc = "progress"
    /\ done_tasks' = done_tasks + (w.e - w.s)
    /\ workers' = Replace(workers, w, [w EXCEPT !.pc = "task_done"])
    /\ UNCHANGED <<t_flags, t_cfg, m_pc, m_k, q, unfinished, results, writes,
                   out_parts, total_tasks>>
    /\ UNCHANGED <<sp_vars, x_vars, t_back, tb_vars>>

\* WorkerTaskDone with the call of q.task_done() forgotten
WorkerTaskDone_forgotten(w) ==
    /\ w.pc = "task_done"
    /\ unfinished' = unfinished
    /\ workers' = Replace(workers, w, IdleWorker(w.born, "check"))
    /\ UNCHANGED <<t_flags, t_cfg, m_pc, m_k, q, results, writes, out_parts,
                   t_progress>>
    /\ UNCHANGED <<sp_vars, x_vars, t_back, tb_vars>>

\* batch_worker: q.task_done(), back to the top of the loop
WorkerTaskDone(w) ==
    /\ w.pc = "task_done"
    /\ unfinished' = unfinished - 1
    /\ workers' = Replace(workers, w, IdleWorker(w.born, "check"))
    /\ UNCHANGED <<t_flags, t_cfg, m_pc, m_k, q, results, writes, out_parts,
                   t_progress>>
    /\ UNCHANGED <<sp_vars, x_vars, t_back, tb_vars>>

UserNext ==
    \/ on_start_translate_no_parts
    \/ on_start_translate
    \/ on_pause_toggle
    \/ on_stop_translate

MainNext ==
    \/ MainStopBreak
    \/ MainEmptyPart
    \/ MainStartPart
    \/ MainJoinReturn
    \/ MainLoopEnd

WorkerNext ==
    \E w \in BagToSet(workers) :
        \/ WorkerCheck(w)
        \/ WorkerGet(w)
        \/ WorkerTranslate(w)
        \/ WorkerProgress(w)
        \/ WorkerTaskDone(w)

Next == UserNext \/ MainNext \/ WorkerNext \/ on_translate_finished

Init == TranslateInit

Spec == Init /\ [][Next]_vars

\* the threads are scheduled and the Tk main loop runs its callbacks; the user
\* need not press anything
FairSpec ==
    /\ Spec
    /\ WF_vars(MainNext)
    /\ WF_vars(WorkerNext)
    /\ WF_vars(on_translate_finished)

\* the same run with the back-translation checkbox on
BackSpec == BackInit /\ [][Next]_vars

\* ------------------------------------------------------------------------
\* properties of split_into_batches (SplitSpec, SplitFairSpec)
\* ------------------------------------------------------------------------
RECURSIVE Cost(_)
\* sum of estimate_tokens over the items of a slice
Cost(ts) == IF ts = <<>> THEN 0 ELSE estimate_tokens(Head(ts)) + Cost(Tail(ts))

\* the budget the call runs under: manual_batch_tokens or max_tokens, by mode
SplitBudget == IF sp_mode = "manual" THEN sp_manual_tokens ELSE sp_max_tokens

\* C8: in both modes every batch returned (and every batch appended so far)
\* has an estimated cost of at most the budget, except a one-item batch whose
\* item alone costs more than the budget.
C8_BatchWithinBudget ==
    \A k \in 1..Len(sp_batches) :
        LET b == sp_batches[k]
        IN  \/ Cost(b.texts) <= SplitBudget
            \/ /\ Len(b.texts) = 1
               /\ estimate_tokens(b.texts[1]) > SplitBudget

C8_Witness ==
    /\ sp_pc = "done"
    /\ \E k \in 1..Len(sp_batches) :
        Len(sp_batches[k].texts) >= 2 /\ Cost(sp_batches[k].texts) = SplitBudget
    /\ \E k \in 1..Len(sp_batches) :
        Len(sp_batches[k].texts) = 1 /\ Cost(sp_batches[k].texts) > SplitBudget

\* C9: the batches returned partition [0, n) in ascending order: the first
\* starts at 0, each starts where the previous one ends, the last ends at n,
\* none is empty, each slice is items[start:end]; an empty list gives none.
C9_Partition ==
    sp_pc = "done" =>
        LET n == Len(sp_texts)
            m == Len(sp_batches)
        IN  /\ (n = 0 => m = 0)
            /\ (n > 0 => m > 0 /\ sp_batches[1].s = 0 /\ sp_batches[m].e = n)
            /\ \A k \in 1..m :
                /\ sp_batches[k].s < sp_batches[k].e
                /\ sp_batches[k].texts = Slice(sp_texts, sp_batches[k].s, sp_batches[k].e)
                /\ (k > 1 => sp_batches[k].s = sp_batches[k - 1].e)

C9_Witness ==
    /\ sp_pc = "done"
    /\ Len(sp_texts) = 3
    /\ Len(sp_batches) = 2
    /\ sp_batches[1].e = 2

\* every item that alone costs more than the budget is a batch of its own
OversizeAlone ==
    \A p \in 0..(Len(sp_texts) - 1) :
        estimate_tokens(sp_texts[p + 1]) > SplitBudget =>
            \E k \in 1..Len(sp_batches) :
                sp_batches[k].s = p /\ sp_batches[k].e = p + 1

\* C10: for every budget, zero and negative ones included, the call returns,
\* and in what it returns every item whose own cost exceeds the budget stands
\* alone in a one-item batch, wherever it is in the list.
C10_TerminatesForcedInclusion ==
    /\ <>(sp_pc = "done")
    /\ [](sp_pc = "done" => OversizeAlone)

C10_Witness ==
    /\ sp_pc = "done"
    /\ Len(sp_texts) = 3
    /\ SplitBudget = 2
    /\ estimate_tokens(sp_texts[2]) > SplitBudget
    /\ estimate_tokens(sp_texts[1]) = 1
    /\ estimate_tokens(sp_texts[3]) = 1
    /\ Len(sp_batches) = 3

C10_WitnessNonPositive ==
    /\ sp_pc = "done"
    /\ SplitBudget <= 0
    /\ Len(sp_texts) = 3
    /\ Len(sp_batches) = 3

\* C20: for any item list and budget B the call in mode "auto" with max_tokens
\* = B and the call in mode "manual" with manual_batch_tokens = B return the
\* same batch list, and a call returns the same boundaries whenever it is made
\* with the same items and budget: what the call returned is the batch list of
\* either mode under its budget.
C20_ModesAgree ==
    sp_pc = "done" =>
        /\ sp_batches = split_into_batches(sp_texts, "auto", SplitBudget, 1000)
        /\ sp_batches = split_into_batches(sp_texts, "manual", 1000, SplitBudget)

C20_Witness ==
    /\ sp_pc = "done"
    /\ sp_mode = "manual"
    /\ Len(sp_texts) = 3
    /\ SplitBudget = 2
    /\ sp_max_tokens # SplitBudget
    /\ Len(sp_batches) = 2
    /\ sp_batches[1].e = 2

\* ------------------------------------------------------------------------
\* properties of extraction and merge (ExtractSpec)
\* ------------------------------------------------------------------------
\* the {ID, Text} entries of every wrapper, in order
EntriesOf(doc) == [k \in 1..Len(doc.FmgWrappers) |-> doc.FmgWrappers[k].Fmg.Entries]

\* C1: extracting a document with any split setting and merging the result at
\* once gives a document whose groups hold the same entries in the same order,
\* with identical ID and Text.
C1_RoundTrip ==
    (x_pc = "extracted" /\ x_msg \in {"merge:info", "merge:error"}) =>
        /\ x_msg = "merge:info"
        /\ Len(x_out) = 1
        /\ EntriesOf(x_out[1]) = EntriesOf(x_doc)

\* the part files of the _extracted directory form chunks 1..m that tile
\* [0, total): the first starts at 0, each starts where the previous one ends,
\* each Count is the number of its Entries, and the Counts add up to total
TilesTotal(parts, total) ==
    LET m == Cardinality(DOMAIN parts)
    IN  /\ DOMAIN parts = 1..m
        /\ \A i \in 1..m :
              /\ parts[i].Meta.Count = Len(parts[i].Entries)
              /\ parts[i].Meta.StartIndex =
                    IF i = 1 THEN 0
                    ELSE parts[i - 1].Meta.StartIndex + parts[i - 1].Meta.Count
        /\ SumCounts(parts, SortedIndexes(DOMAIN parts)) = total

\* C11: after an extraction with any split setting (split off, or split on
\* with any chunk size, 0 and negative ones included) the chunks written are a
\* strict partition of [0, TotalEntries): ascending StartIndex, no gap, no
\* overlap, and their Counts add up to the header's TotalEntries.
C11_ChunksPartition ==
    x_pc = "extracted" => TilesTotal(fs_parts, fs_header[1].Meta.TotalEntries)

\* the chunk size the extraction ran with: the field when the split checkbox
\* is on, 0 when it is off
ChunkSize == IF extract_split_var THEN extract_max_var ELSE 0

\* C12: writing n texts with chunk size c gives one chunk holding all of them
\* when c <= 0, and otherwise ceil(n / c) chunks, each of c texts but the last,
\* which holds between 1 and c; the count returned is the number of part files
\* written.
C12_ChunkCount ==
    x_pc = "extracted" =>
        LET texts == flat_texts(x_doc.FmgWrappers, 1)
            n     == Len(texts)
            c     == ChunkSize
            m     == Cardinality(DOMAIN fs_parts)
        IN  /\ c <= 0 => (m = 1 /\ DOMAIN fs_parts = {1} /\ fs_parts[1].Entries = texts)
            /\ c > 0 =>
                  /\ DOMAIN fs_parts = 1..m
                  /\ m = (n + c - 1) \div c
                  /\ \A i \in 1..m :
                        IF i < m THEN Len(fs_parts[i].Entries) = c
                        ELSE Len(fs_parts[i].Entries) \in 1..c
            /\ x_count = m

RECURSIVE AllIndexes(_)
\* the EntryIndexes lists of the blocks of a structure, one after the other
AllIndexes(structure) ==
    IF structure = <<>> THEN <<>>
    ELSE Head(structure).EntryIndexes \o AllIndexes(Tail(structure))

\* C18: the structure built for a document numbers the entries 0, 1, 2, ... in
\* document order (groups in order, entries in order within a group): the
\* EntryIndexes lists of the groups, one after the other, are 0..TotalEntries-1,
\* so every index occurs exactly once; each group's list is as long as the
\* group; and len(entry_ids) = TotalEntries = the sum of the lists' lengths,
\* with the entry's ID at its index.
C18_IndexBijection ==
    x_pc = "extracted" =>
        LET h     == fs_header[1]
            total == h.Meta.TotalEntries
            flat  == AllIndexes(h.Structure)
            ids   == [k \in 1..Len(x_doc.FmgWrappers) |->
                        [e \in 1..Len(x_doc.FmgWrappers[k].Fmg.Entries) |->
                            x_doc.FmgWrappers[k].Fmg.Entries[e].ID]]
        IN  /\ flat = [i \in 1..total |-> i - 1]
            /\ Len(h.EntryIDs) = total
            /\ Len(h.Structure) = Len(x_doc.FmgWrappers)
            /\ \A k \in 1..Len(h.Structure) :
                  /\ Len(h.Structure[k].EntryIndexes) = Len(ids[k])
                  /\ \A e \in 1..Len(ids[k]) :
                        h.EntryIDs[h.Structure[k].EntryIndexes[e] + 1] = ids[k][e]

C18_Witness ==
    /\ x_pc = "extracted"
    /\ Len(x_doc.FmgWrappers) = 2
    /\ Len(x_doc.FmgWrappers[1].Fmg.Entries) = 2
    /\ Len(x_doc.FmgWrappers[2].Fmg.Entries) = 2
    /\ x_doc.FmgWrappers[1].Fmg.Entries[1].ID # x_doc.FmgWrappers[2].Fmg.Entries[1].ID
    /\ fs_header[1].Structure[2].EntryIndexes = <<2, 3>>

\* ------------------------------------------------------------------------
\* properties of the extraction of a malformed document (MalformedSpec)
\* ------------------------------------------------------------------------
\* C17: the extraction of a document in which a group lacks its name or id, or
\* an entry its id or text, fails with an error and writes neither the header
\* nor any chunk file.
C17_MalformedWritesNothing ==
    (x_pc = "extracted" /\ Malformed(x_doc)) =>
        /\ fs_header = <<>>
        /\ DOMAIN fs_parts = {}
        /\ x_msg # "extract:info"

\* ------------------------------------------------------------------------
\* properties of a merge of a folder with files missing (MergeSpec)
\* ------------------------------------------------------------------------
\* the merge handler has run
Merged == x_msg \in {"merge:info", "merge:error"}

\* 0_header.json is missing, or a chunk file is: there is no part file, or a
\* part file present says ChunkCount = c and some part_<j>.json, j in 1..c, is
\* not there
FilesMissing ==
    \/ fs_header = <<>>
    \/ DOMAIN fs_parts = {}
    \/ \E i \in DOMAIN fs_parts :
          \E j \in 1..fs_parts[i].Meta.ChunkCount : j \notin DOMAIN fs_parts

\* C16: a merge of a folder whose header or one of whose chunk files is
\* missing (one chunk file missing among several included) ends with an error
\* and writes no output document.
C16_MissingFileAborts ==
    (Merged /\ FilesMissing) => (x_msg = "merge:error" /\ x_out = <<>>)

\* ------------------------------------------------------------------------
\* properties of the translation run (Spec, FairSpec)
\* ------------------------------------------------------------------------
\* the entries of part_<k>.json of the folder, translated by the provider
Translated(k) == [i \in 1..Len(in_parts[k].Entries) |-> Tr(in_parts[k].Entries[i])]

\* C2: in a run that is not stopped, with the provider that appends _zh to
\* every text, whatever the number of workers and their interleaving: no slot
\* of a part's results is written twice, every slot has been written exactly
\* once when q.join() has returned, and every part written to the _translated
\* directory holds the translated text at every index.
C2_EveryIndexOnce ==
    ~stop_event =>
        /\ \A i \in 1..Len(writes) : writes[i] <= 1
        /\ (m_pc # "join" => \A i \in 1..Len(writes) : writes[i] = 1)
        /\ provider = "suffix" =>
             \A k \in DOMAIN out_parts :
                /\ out_parts[k].Meta = in_parts[k].Meta
                /\ out_parts[k].Entries = Translated(k)

C2_Witness ==
    /\ ~stop_event
    /\ provider = "suffix"
    /\ threads = 2
    /\ \E k \in DOMAIN out_parts :
        /\ Len(out_parts[k].Entries) = 2
        /\ Len(part_batches(in_parts[k].Entries)) = 2
        /\ out_parts[k].Entries = Translated(k)

\* C3: once the stop signal is set the run comes to its end: the thread
\* leaves q.join() and _on_translate_finished is scheduled (and then run).
C3_StopTerminates == stop_event ~> (ui_after \/ ~running)

\* slot i (1-based) of the current part lies in a batch still in the queue
InQueue(i) == \E b \in 1..Len(q) : q[b].s < i /\ i <= q[b].e

\* part k of part_files is in the _translated directory, with the translated
\* text where the batch was started and the original text where it was not
FlushedAfterStop(k) ==
    /\ k <= Len(part_files)
    /\ part_files[k] \in DOMAIN out_parts
    /\ provider = "suffix" =>
         \A i \in 1..Len(in_parts[part_files[k]].Entries) :
            out_parts[part_files[k]].Entries[i] =
                IF InQueue(i) THEN in_parts[part_files[k]].Entries[i]
                ELSE Tr(in_parts[part_files[k]].Entries[i])

\* C4: when the stop signal is set while a part is being processed, that part
\* is written to the _translated directory, with the translated text at the
\* indices of the batches that were started and the original text at the others.
C4_StopFlushesPart ==
    \A k \in 1..MaxFlat :
        (stop_event /\ m_pc = "join" /\ m_k = k) ~> FlushedAfterStop(k)

\* threads that have passed the pause check and not yet counted their batch
InFlight ==
    LET S == {w \in BagToSet(workers) : w.pc \in {"get", "translate", "progress"}}
        RECURSIVE Count(_)
        Count(T) == IF T = {} THEN 0
                    ELSE LET x == CHOOSE x \in T : TRUE
                         IN  CopiesIn(x, workers) + Count(T \ {x})
    IN  Count(S)

\* C5 as stated: while the pause flag is set, done_tasks does not change.
C5_PausedDoneFrozen ==
    [][(pause_event /\ pause_event') => done_tasks' = done_tasks]_vars

\* C5 as amended: while the pause flag is set no thread passes the pause check,
\* and done_tasks changes only when a thread that had passed it before
\* completes its batch (so at most once per such thread).
C5_PausedOnlyInFlight ==
    [][(pause_event /\ pause_event') =>
          /\ InFlight' <= InFlight
          /\ \/ done_tasks' = done_tasks
             \/ done_tasks' > done_tasks /\ InFlight' = InFlight - 1]_vars

C5_Witness ==
    /\ running
    /\ pause_event
    /\ q # <<>>
    /\ done_tasks > 0
    /\ \E w \in BagToSet(workers) : w.pc = "check"
    /\ \E w \in BagToSet(workers) : w.pc = "task_done"

\* C6: once the pause flag has been set and cleared, done_tasks comes to equal
\* total_tasks, unless the run is paused again or stopped.
C6_ResumeReachesTotal ==
    (resumed /\ ~pause_event) ~> (pause_event \/ stop_event \/ done_tasks = total_tasks)

C6_Witness ==
    /\ resumed
    /\ ~pause_event
    /\ ~stop_event
    /\ total_tasks = 2
    /\ done_tasks = total_tasks
    /\ Cardinality(DOMAIN out_parts) = 2

\* C7: done_tasks never exceeds total_tasks and never decreases during a run;
\* total_tasks is the sum of the entry counts of all parts from the start of
\* the run on and does not change during it.
C7_ProgressBounds ==
    /\ [](done_tasks <= total_tasks)
    /\ [](running => total_tasks = SumCounts(in_parts, part_files))
    /\ [][(running /\ running') =>
            (done_tasks' >= done_tasks /\ total_tasks' = total_tasks)]_vars

C7_Witness ==
    /\ running
    /\ m_pc = "join"
    /\ 0 < done_tasks
    /\ done_tasks < total_tasks

\* entry i (1-based) of part pf lies in a batch whose provider call failed
InFailed(pf, i) == \E f \in failed_batches : f.pf = pf /\ f.s < i /\ i <= f.e

\* the parts the current run has written to the _translated directory (the
\* for loop has passed them; a file of an earlier run stays until rewritten)
WrittenThisRun == {part_files[j] : j \in 1..(m_k - 1)} \cap DOMAIN out_parts

\* the entries of the failed batches hold the original text, in results while
\* the part is being processed and in the part written afterwards
FailedKeepOriginal ==
    \A f \in failed_batches : \A i \in (f.s + 1)..f.e :
        /\ (m_pc = "join" /\ part_files[m_k] = f.pf) =>
               results[i] = <<in_parts[f.pf].Entries[i]>>
        /\ f.pf \in WrittenThisRun =>
               out_parts[f.pf].Entries[i] = in_parts[f.pf].Entries[i]

\* in a part the run has written to the _translated directory every entry
\* outside the failed batches holds its translation
OthersTranslated ==
    \A pf \in WrittenThisRun : \A i \in 1..Len(in_parts[pf].Entries) :
        ~InFailed(pf, i) => out_parts[pf].Entries[i] = Tr(in_parts[pf].Entries[i])

LiveBatches ==
    {[s |-> q[b].s, e |-> q[b].e, texts |-> q[b].texts] : b \in 1..Len(q)}
    \cup {[s |-> w.s, e |-> w.e, texts |-> w.texts] :
             w \in {v \in BagToSet(workers) : v.pc \in {"translate", "progress", "task_done"}}}

\* the batches of the part the for loop stands at
CurBatches ==
    LET bs == part_batches(CurPart.Entries)
    IN  {bs[b] : b \in 1..Len(bs)}

\* C15: parts are processed strictly one at a time.  Batches are queued or in
\* flight only while the thread waits in q.join() for the current part, and
\* they are batches of that part; the batches of a part are queued only when
\* no batch is queued or in flight and every earlier part has been written to
\* the _translated directory.
C15_OnePartAtATime ==
    /\ [](LiveBatches # {} => (m_pc = "join" /\ LiveBatches \subseteq CurBatches))
    /\ [][(m_pc # "join" /\ m_pc' = "join") =>
            /\ LiveBatches = {}
            /\ \A j \in 1..(m_k - 1) : part_files[j] \in DOMAIN out_parts]_vars

C15_Witness ==
    /\ m_pc = "join"
    /\ m_k = 2
    /\ part_files[1] \in DOMAIN out_parts
    /\ \E w \in BagToSet(workers) : w.pc = "translate" /\ w.born = 1
    /\ \E w \in BagToSet(workers) : w.pc = "check" /\ w.born = 2

\* ------------------------------------------------------------------------
\* properties of the run with back-translation on (BackSpec)
\* ------------------------------------------------------------------------
\* while a part is being processed, every slot of results that has been
\* written holds what the provider's answer alone gives: the translation, or
\* the original text in a batch whose call failed
ResultsFromProvider ==
    m_pc = "join" =>
        \A i \in 1..Len(results) :
            results[i] # <<>> =>
                results[i] = <<IF InFailed(part_files[m_k], i) THEN CurPart.Entries[i]
                               ELSE Tr(CurPart.Entries[i])>>

\* the back checks collected for the current part with a score below 0.6 have
\* their warning in the log
LowScoresWarned ==
    m_pc = "join" =>
        \A r \in part_back_checks :
            r.score < 60 => [pf |-> part_files[m_k], index |-> r.index] \in warns

\* C19: back-translation never alters the output text.  With back_check on,
\* whatever the back-translation answers and whatever the scores, results and
\* the parts written hold exactly what the run without back-translation gives
\* (the translation, or the original where the provider call failed); the
\* records only go to part_back_checks and from there to back_checks.json,
\* and a score below 0.6 only adds a warning to the log.
C19_BackCheckFrame ==
    /\ [](back_check => (ResultsFromProvider /\ FailedKeepOriginal /\ OthersTranslated))
    /\ [](back_check => LowScoresWarned)
    /\ [][\A pf \in DOMAIN bc_file :
             pf \in DOMAIN bc_file' /\ bc_file[pf] \subseteq bc_file'[pf]]_vars

C19_Witness ==
    /\ back_check
    /\ \E pf \in DOMAIN out_parts :
          /\ Len(out_parts[pf].Entries) = 2
          /\ out_parts[pf].Entries = Translated(pf)
          /\ pf \in DOMAIN bc_file
          /\ \E r \in bc_file[pf] : r.score < 60 /\ r.back_text = Garbled
          /\ \E r \in bc_file[pf] : r.score >= 60
          /\ \E w \in warns : w.pf = pf

\* ------------------------------------------------------------------------
\* properties of one call of translate_batch (BatchSpec)
\* ------------------------------------------------------------------------
\* the provider's answer cannot be aligned with the batch: it does not parse,
\* or it carries fewer or more objects than the batch has texts
Unaligned ==
    \/ tb_resp.kind # "list"
    \/ Len(tb_resp.items) # Len(tb_texts)

\* C14: when the provider's answer cannot be aligned with the batch, the whole
\* batch is treated as failed: every item gets its original text, none a text
\* from that answer.
C14_UnalignedAllOriginal ==
    (tb_pc = "done" /\ Unaligned) => tb_out[1].translations = tb_texts

\* ------------------------------------------------------------------------
\* further properties of the translation run (Spec, FairSpec)
\* ------------------------------------------------------------------------
\* the batches in the queue
Queued == {q[b] : b \in 1..Len(q)}

\* C21: while the pause flag is set no worker dequeues a batch: across every
\* step that leaves pause set (and stop clear) every batch that was in the
\* queue is still in it.
C21_PausedQueueKept ==
    [][(pause_event /\ pause_event' /\ ~stop_event') => Queued \subseteq Queued']_vars

\* the number of worker threads that hold a batch: dequeued, not yet marked done
Processing ==
    LET S == {w \in BagToSet(workers) : w.pc \in {"translate", "progress", "task_done"}}
        RECURSIVE Count(_)
        Count(T) == IF T = {} THEN 0
                    ELSE LET x == CHOOSE x \in T : TRUE
                         IN  CopiesIn(x, workers) + Count(T \ {x})
    IN  Count(S)

\* C22: in a run with N worker threads asked for, at most max(1, N) batches
\* are being processed at any moment, over several parts too: a thread started
\* for part K never holds a batch of a later part.
C22_AtMostNProcessing ==
    /\ Processing <= Max2(1, threads)
    /\ \A w \in BagToSet(workers) :
          w.pc \in {"translate", "progress", "task_done"} => w.born = m_k

\* C23: every run that has set the running flag comes to reset it (and with it
\* to unlock the start button), unless the user keeps it paused: runs that
\* complete and runs that are stopped while batches are still queued alike.
C23_RunningReset == running ~> (~running \/ pause_event)

RECURSIVE ItemsOf(_)
\* the item count (e - s) of the batches of a queue, added up
ItemsOf(batches) ==
    IF batches = <<>> THEN 0
    ELSE (Head(batches).e - Head(batches).s) + ItemsOf(Tail(batches))

\* the items of the batches that threads hold and have not yet counted
Uncounted ==
    LET S == {w \in BagToSet(workers) : w.pc \in {"translate", "progress"}}
        RECURSIVE Sum(_)
        Sum(T) == IF T = {} THEN 0
                  ELSE LET x == CHOOSE x \in T : TRUE
                       IN  (x.e - x.s) * CopiesIn(x, workers) + Sum(T \ {x})
    IN  Sum(S)

\* the items of the batches completed so far in the run: all of the parts the
\* for loop has passed, and of the current part those neither queued nor held
\* uncounted by a thread
CompletedItems ==
    SumCounts(in_parts, SubSeq(part_files, 1, m_k - 1))
    + (IF m_pc = "join" THEN Len(CurPart.Entries) - ItemsOf(q) - Uncounted ELSE 0)

\* C24: done_tasks is incremented once per completed batch, by its item count
\* (e - s): in every state it equals the item count of the batches completed
\* so far, whatever the number of threads, and when a run that was not stopped
\* has ended it equals total_tasks.
C24_DoneCountsCompleted ==
    /\ done_tasks = CompletedItems
    /\ (m_pc = "ended" /\ ~stop_event) => done_tasks = total_tasks

C24_Witness ==
    /\ threads = 2
    /\ m_pc = "join"
    /\ m_k = 2
    /\ done_tasks = 1
    /\ total_tasks = 2
    /\ \E w \in BagToSet(workers) : w.pc = "progress"

C24_WitnessEnd ==
    /\ m_pc = "ended"
    /\ ~stop_event
    /\ threads = 2
    /\ done_tasks = 2
    /\ \E pf \in DOMAIN in_parts : Len(part_batches(in_parts[pf].Entries)) = 1
                                     /\ Len(in_parts[pf].Entries) = 2

\* the output chunk pf has the Meta and the entry count of its input chunk, and
\* every position holds the provider's result for that position or its original
GapFree(pf) ==
    /\ out_parts[pf].Meta = in_parts[pf].Meta
    /\ Len(out_parts[pf].Entries) = Len(in_parts[pf].Entries)
    /\ \A i \in 1..Len(in_parts[pf].Entries) :
          out_parts[pf].Entries[i] \in {in_parts[pf].Entries[i], Tr(in_parts[pf].Entries[i])}

\* C25: every flushed output chunk has the Meta and the number of entries of
\* its input chunk, and each position holds the provider's result for that
\* position or the original text of that position; an input chunk without
\* entries that the loop has passed is flushed as a chunk without entries.
C25_FlushedGapFree ==
    /\ DOMAIN out_parts \subseteq DOMAIN in_parts
    /\ \A pf \in DOMAIN out_parts : GapFree(pf)
    /\ \A j \in 1..Len(part_files) :
          (j < m_k /\ in_parts[part_files[j]].Entries = <<>>)
             => /\ part_files[j] \in DOMAIN out_parts
                /\ out_parts[part_files[j]].Entries = <<>>

C25_Witness ==
    \E pf \in DOMAIN out_parts :
        /\ Len(in_parts[pf].Entries) = 2
        /\ in_parts[pf].Entries[1] # in_parts[pf].Entries[2]
        /\ out_parts[pf].Entries[1] = in_parts[pf].Entries[1]
        /\ out_parts[pf].Entries[2] = Tr(in_parts[pf].Entries[2])

C25_WitnessEmpty ==
    \E pf \in DOMAIN out_parts : in_parts[pf].Entries = <<>> /\ out_parts[pf].Entries = <<>>

\* how often the batch starting at s stands in the queue
QueuedTimes(s) == Cardinality({b \in 1..Len(q) : q[b].s = s})

\* how many threads have dequeued the batch starting at s and not yet got the
\* provider's answer for it
Submitting(s) ==
    LET S == {w \in BagToSet(workers) : w.pc = "translate" /\ w.s = s}
        RECURSIVE Sum(_)
        Sum(T) == IF T = {} THEN 0
                  ELSE LET x == CHOOSE x \in T : TRUE
                       IN  CopiesIn(x, workers) + Sum(T \ {x})
    IN  Sum(S)

\* C26: while a part is being processed every batch of it is, at any moment,
\* either still queued once, or held by exactly one worker that has not yet
\* got the provider's answer, or answered exactly once (its slots written
\* once): no batch is dequeued by two workers or submitted twice; a batch
\* whose provider call failed is neither on the queue nor submitted again.
C26_BatchSubmittedOnce ==
    m_pc = "join" =>
        \A b \in 1..Len(part_batches(CurPart.Entries)) :
            LET bat == part_batches(CurPart.Entries)[b]
            IN  /\ QueuedTimes(bat.s) + Submitting(bat.s) + writes[bat.s + 1] = 1
                /\ [pf |-> part_files[m_k], s |-> bat.s, e |-> bat.e] \in failed_batches
                     => QueuedTimes(bat.s) = 0 /\ Submitting(bat.s) = 0

C26_Witness ==
    /\ m_pc = "join"
    /\ threads = 2
    /\ Len(part_batches(CurPart.Entries)) = 2
    /\ \E f \in failed_batches : f.pf = part_files[m_k] /\ f.s = 0
    /\ Submitting(1) = 1
    /\ q = <<>>

\* C27: every batch whose provider call failed is named by a warning or error
\* record of the log.
C27_FailedBatchLogged ==
    \A f \in failed_batches :
        \/ f \in error_log
        \/ \E w \in warns : w.pf = f.pf /\ f.s <= w.index /\ w.index < f.e

\* C28: split_into_batches is greedy: every batch that is followed by another
\* item (every batch but the last of the returned list) is maximal, the
\* estimated cost of the batch plus that of the item starting the next batch
\* exceeds the budget.
C28_GreedyMaximal ==
    \A k \in 1..Len(sp_batches) :
        LET b == sp_batches[k]
        IN  b.e < Len(sp_texts) =>
               Cost(b.texts) + estimate_tokens(sp_texts[b.e + 1]) > SplitBudget

C28_Witness ==
    /\ sp_pc = "done"
    /\ sp_mode = "auto"
    /\ Len(sp_texts) = 3
    /\ Len(sp_batches) = 2
    /\ Len(sp_batches[1].texts) = 2
    /\ Cost(sp_batches[1].texts) < SplitBudget
    /\ Len(sp_batches[2].texts) = 1

\* the chunk files of the directory that cover global index g (0-based)
Covering(g) ==
    {pf \in DOMAIN fs_parts :
        /\ fs_parts[pf].Meta.StartIndex <= g
        /\ g < fs_parts[pf].Meta.StartIndex + Len(fs_parts[pf].Entries)}

\* C29: merge_folder builds the texts by position: for every global index g
\* in [0, TotalEntries) the merged text at g is the text at offset g -
\* StartIndex of a chunk file covering g, and the empty string when no chunk
\* file covers g; there is one merged entry per entry ID (chunk texts outside
\* [0, TotalEntries) are left out), and the entry at g carries EntryIDs[g].
C29_MergedByPosition ==
    x_msg = "merge:info" =>
        LET header == fs_header[1]
            merged == x_merged[1]
        IN  /\ Len(merged) = Len(header.EntryIDs)
            /\ \A g \in 0..(Len(merged) - 1) :
                  /\ merged[g + 1].ID = header.EntryIDs[g + 1]
                  /\ IF g < header.Meta.TotalEntries /\ Covering(g) # {}
                     THEN \E pf \in Covering(g) :
                            merged[g + 1].Text =
                               fs_parts[pf].Entries[g - fs_parts[pf].Meta.StartIndex + 1]
                     ELSE merged[g + 1].Text = <<>>

\* a merge of a directory with a chunk starting past index 0 whose text is
\* placed, an index no chunk covers, and a chunk text past the last index
C29_Witness ==
    /\ x_msg = "merge:info"
    /\ \E pf \in DOMAIN fs_parts :
          /\ fs_parts[pf].Meta.StartIndex = 1
          /\ Len(fs_parts[pf].Entries) = 1
          /\ fs_parts[pf].Entries[1] = TextOfLen(1)
          /\ Len(x_merged[1]) >= 2
          /\ x_merged[1][2].Text = TextOfLen(1)
          /\ x_merged[1][1].Text = <<>>

C29_WitnessUncovered ==
    /\ x_msg = "merge:info"
    /\ \E g \in 0..(Len(x_merged[1]) - 1) : Covering(g) = {}

C29_WitnessOutside ==
    /\ x_msg = "merge:info"
    /\ \E pf \in DOMAIN fs_parts :
          fs_parts[pf].Meta.StartIndex + Len(fs_parts[pf].Entries) > Len(x_merged[1])

\* the second extraction ran with a valid chunk size and returned normally
SecondExtracted ==
    /\ x_pc = "extracted"
    /\ x_count >= 1
    /\ extract_split_var => extract_max_var >= 1

\* C30: extracting into a directory that holds the result of an earlier
\* extraction replaces that result: a merge performed after the second
\* extraction returns exactly the texts of the second extraction.
C30_ReExtractReplaces ==
    (SecondExtracted /\ x_msg = "merge:info") =>
        LET texts == flat_texts(x_doc.FmgWrappers, 1)
        IN  /\ Len(x_merged[1]) = Len(texts)
            /\ \A g \in 1..Len(texts) : x_merged[1][g].Text = texts[g]

====
